---- MODULE Spec2Model ----
(***************************************************************************)
(* Model of advanced-vector/vector.h: RawMemory<T> (a block of raw slots)  *)
(* and Vector<T> (data_, size_) with every element operation made explicit *)
(* (placement construction, copy/move construction, assignment,           *)
(* destruction), so that object lifetimes, leaks and exception paths can   *)
(* be checked.  Indices are 0-based as in the source.                      *)
(***************************************************************************)
EXTENDS Integers, Sequences, FiniteSets, TLC

VARIABLES T, data_, size_, lost, phase, viol, last, heap, vec, raw

vars == <<T, data_, size_, lost, phase, viol, last, heap, vec, raw>>

\* ------------------------------------------------------------------ bounds
\* largest size or capacity a caller asks for (Vector(n), Reserve, Resize,
\* the source of a copy assignment)
MaxCap == 3
\* largest capacity a growing PushBack or Insert may reach
MaxGrow == 4
\* largest capacity reached when only PushBack is called
MaxPush == 8
\* element values a caller passes are 1..MaxVal
MaxVal == 2
\* addresses operator new can return, for the objects that live on a heap
MaxAddr == 3
\* largest size or capacity of the vector objects that live on a heap
MaxObjCap == 2

\* ------------------------------------------------------------ element type
\* The value of a value-initialized T (T()) and of a moved-from T.
Empty == 0
\* What a read of raw memory yields.
Indet == -1
Values == 1..MaxVal

\* T is a template parameter: the three kinds of element type the relocation
\* policy distinguishes (is_nothrow_move_constructible_v, is_copy_constructible_v).
NothrowMovable == [nothrow_move |-> TRUE, copyable |-> TRUE]
ThrowingMoveCopyable == [nothrow_move |-> FALSE, copyable |-> TRUE]
ThrowingMoveOnly == [nothrow_move |-> FALSE, copyable |-> FALSE]
Kinds == {NothrowMovable, ThrowingMoveCopyable, ThrowingMoveOnly}

\* Which element operations of T may throw.  T's move assignment is taken to
\* throw exactly when its move constructor may; destructors never throw.
CanThrow(t, kind) ==
    CASE kind = "ctor" -> TRUE
      [] kind = "value" -> TRUE
      [] kind = "copy_ctor" -> TRUE
      [] kind = "copy_assign" -> TRUE
      [] kind = "move_ctor" -> ~t.nothrow_move
      [] kind = "move_assign" -> ~t.nothrow_move
      [] OTHER -> FALSE

\* ------------------------------------------------------------- raw storage
RawSlot == [st |-> "raw", val |-> Indet]
LiveSlot(v) == [st |-> "live", val |-> v]

\* RawMemory::Allocate(n): n uninitialized slots; n = 0 gives no block.
Allocate(n) == [i \in 0..(n - 1) |-> RawSlot]

\* RawMemory::Capacity()
Capacity(block) == Cardinality(DOMAIN block)

NoBlock == Allocate(0)

LiveCount(block) == Cardinality({i \in DOMAIN block : block[i].st = "live"})

\* ----------------------------------------------------- the running handler
\* A handler runs on a machine record: the blocks it can address (mem.data is
\* data_'s block, mem.buf a local RawMemory, mem.temp the object made by
\* `new T`, mem.rhs the source vector's block), size_, and bookkeeping:
\*   fuel  k > 0: the k-th element operation that may throw does; 0: none does
\*   exc   an exception is propagating
\*   ub    what the build does on an assignment to a slot holding no object
\*   viol  lifetime violations committed, ops counts of element operations
\*   fresh data_ holds a block that was allocated during the call
NoOps == [ctor |-> 0, copy |-> 0, move |-> 0, assign |-> 0, dtor |-> 0,
          alloc |-> 0, free |-> 0]

\* A call that returns no iterator.
NoRet == [b |-> "none", i |-> 0]

Machine(block, size, rhsBlock, fuel, ub) ==
    [mem |-> [data |-> block, buf |-> NoBlock, temp |-> NoBlock, rhs |-> rhsBlock],
     size |-> size, fuel |-> fuel, exc |-> FALSE, ub |-> ub, viol |-> {},
     ops |-> NoOps, lostObjs |-> 0, lostBlocks |-> 0, dbl |-> 0, ret |-> NoRet,
     fresh |-> FALSE]

Ptr(b, i) == [b |-> b, i |-> i]
At(m, p) == m.mem[p.b][p.i]

Throws(m, kind) == m.fuel = 1 /\ CanThrow(T, kind)
Tick(m, kind) == IF CanThrow(T, kind) /\ m.fuel > 1 THEN m.fuel - 1 ELSE m.fuel
Raise(m) == [m EXCEPT !.exc = TRUE, !.fuel = 0]

\* Sequencing of statements: rest is the machine after the statements that
\* follow m; once an exception is in flight (m.exc) they do not run.
Then(m, rest) == IF m.exc THEN m ELSE rest

\* new (p) T(v): placement construction of a value (kind "ctor" from
\* arguments, "value" for value-initialization).
ConstructAt(m, p, v, kind) ==
    IF Throws(m, kind) THEN Raise(m)
    ELSE LET over == At(m, p).st = "live" IN
         [m EXCEPT !.mem[p.b][p.i] = LiveSlot(v),
                   !.fuel = Tick(m, kind),
                   !.ops.ctor = @ + 1,
                   !.viol = IF over THEN @ \cup {"construct_over_live"} ELSE @,
                   !.lostObjs = IF over THEN @ + 1 ELSE @]

\* m1 is the machine after a constructor has read an object in state st
MarkRead(m1, st) ==
    IF m1.exc \/ st = "live" THEN m1 ELSE [m1 EXCEPT !.viol = @ \cup {"read_of_raw"}]

\* new (p) T(std::forward<Args>(args)...) where args is a reference to the
\* object at arg (the caller's object in mem.rhs, or an element of the
\* array): the object is read when the constructor runs.
ConstructArg(m, p, arg) ==
    MarkRead(ConstructAt(m, p, At(m, arg).val, "ctor"), At(m, arg).st)

\* new (dst) T(*src) / new (dst) T(std::move(*src))
ConstructFrom(m, dst, src, kind) ==
    IF Throws(m, kind) THEN Raise(m)
    ELSE LET s == At(m, src)
             over == At(m, dst).st = "live"
             m1 == [m EXCEPT !.mem[dst.b][dst.i] = LiveSlot(s.val),
                        !.fuel = Tick(m, kind),
                        !.ops.copy = IF kind = "copy_ctor" THEN @ + 1 ELSE @,
                        !.ops.move = IF kind = "move_ctor" THEN @ + 1 ELSE @,
                        !.viol = (IF over THEN @ \cup {"construct_over_live"} ELSE @)
                                 \cup (IF s.st = "raw" THEN {"read_of_raw"} ELSE {}),
                        !.lostObjs = IF over THEN @ + 1 ELSE @]
         IN IF kind = "move_ctor" /\ s.st = "live"
            THEN [m1 EXCEPT !.mem[src.b][src.i] = LiveSlot(Empty)]
            ELSE m1

\* *dst = *src / *dst = std::move(*src).  Assigning to a slot that holds no
\* object is undefined: the build either stores the value anyway or leaves
\* garbage; no object is created either way.
AssignFrom(m, dst, src, kind) ==
    IF Throws(m, kind) THEN Raise(m)
    ELSE LET s == At(m, src)
             d == At(m, dst)
             m1 == [m EXCEPT !.mem[dst.b][dst.i] =
                            IF d.st = "live" THEN LiveSlot(s.val)
                            ELSE [st |-> "raw",
                                  val |-> IF m.ub = "stores" THEN s.val ELSE Indet],
                        !.fuel = Tick(m, kind),
                        !.ops.assign = @ + 1,
                        !.viol = (IF d.st = "raw" THEN @ \cup {"assign_to_raw"} ELSE @)
                                 \cup (IF s.st = "raw" THEN {"read_of_raw"} ELSE {})]
         IN IF kind = "move_assign" /\ s.st = "live"
            THEN [m1 EXCEPT !.mem[src.b][src.i] = LiveSlot(Empty)]
            ELSE m1

\* p->~T().  p may be the end of the block or null (Erase(end()) on a full or
\* empty array): then the destructor runs on memory outside the block.
DestroyAt(m, p) ==
    IF p.i \notin DOMAIN m.mem[p.b]
    THEN [m EXCEPT !.viol = @ \cup {"out_of_block"}, !.dbl = @ + 1]
    ELSE IF At(m, p).st = "live"
    THEN [m EXCEPT !.mem[p.b][p.i] = RawSlot, !.ops.dtor = @ + 1]
    ELSE [m EXCEPT !.viol = @ \cup {"destroy_of_raw"}, !.dbl = @ + 1]

\* --------------------------------------------------------- std algorithms
\* std::destroy_n(p, n); once it has left the block nothing more is followed
RECURSIVE DestroyN(_, _, _)
DestroyN(m, p, n) ==
    IF n <= 0 \/ "out_of_block" \in m.viol THEN m
    ELSE DestroyN(DestroyAt(m, p), Ptr(p.b, p.i + 1), n - 1)

\* std::uninitialized_copy_n / std::uninitialized_move_n from element k on:
\* on a throw the k elements already constructed at dst are destroyed and
\* the exception goes on.
RECURSIVE UninitializedFromN(_, _, _, _, _, _)
UninitializedFromN(m, src, n, dst, kind, k) ==
    IF k >= n THEN m
    ELSE LET m1 == ConstructFrom(m, Ptr(dst.b, dst.i + k), Ptr(src.b, src.i + k), kind)
         IN IF m1.exc THEN DestroyN(m1, dst, k)
            ELSE UninitializedFromN(m1, src, n, dst, kind, k + 1)

\* std::uninitialized_copy_n(src, n, dst)
UninitializedCopyN(m, src, n, dst) == UninitializedFromN(m, src, n, dst, "copy_ctor", 0)

\* std::uninitialized_move_n(src, n, dst)
UninitializedMoveN(m, src, n, dst) == UninitializedFromN(m, src, n, dst, "move_ctor", 0)

\* std::uninitialized_value_construct_n(p, n) from element k on
RECURSIVE UninitializedValueConstructN(_, _, _, _)
UninitializedValueConstructN(m, p, n, k) ==
    IF k >= n THEN m
    ELSE LET m1 == ConstructAt(m, Ptr(p.b, p.i + k), Empty, "value")
         IN IF m1.exc THEN DestroyN(m1, p, k)
            ELSE UninitializedValueConstructN(m1, p, n, k + 1)

\* std::copy(first, last, d_first) / std::move(first, last, d_first) within
\* or across blocks: element-wise assignment, front to back (first, last and
\* d are indices into blocks sb and db).
RECURSIVE AssignForward(_, _, _, _, _, _, _)
AssignForward(m, sb, first, lastIdx, db, d, kind) ==
    IF first >= lastIdx THEN m
    ELSE LET m1 == AssignFrom(m, Ptr(db, d), Ptr(sb, first), kind)
         IN IF m1.exc THEN m1
            ELSE AssignForward(m1, sb, first + 1, lastIdx, db, d + 1, kind)

\* std::move_backward(first, last, d_last): move-assignment, back to front
RECURSIVE MoveBackward(_, _, _, _, _)
MoveBackward(m, b, first, lastIdx, dLast) ==
    IF first >= lastIdx THEN m
    ELSE LET m1 == AssignFrom(m, Ptr(b, dLast - 1), Ptr(b, lastIdx - 1), "move_assign")
         IN IF m1.exc THEN m1
            ELSE MoveBackward(m1, b, first, lastIdx - 1, dLast - 1)

\* ---------------------------------------------------------------- RawMemory
\* RawMemory<T> buffer(n): a local block
NewBuffer(m, n) ==
    [m EXCEPT !.mem.buf = Allocate(n), !.ops.alloc = IF n # 0 THEN @ + 1 ELSE @]

\* RawMemory::~RawMemory of the local block: Deallocate(buffer_) runs no
\* destructor; objects still alive in the block are lost.
FreeBuffer(m) ==
    [m EXCEPT !.mem.buf = NoBlock,
              !.ops.free = IF Capacity(m.mem.buf) # 0 THEN @ + 1 ELSE @,
              !.lostObjs = @ + LiveCount(m.mem.buf)]

\* RawMemory::Swap between data_ and the local block; a saved iterator keeps
\* addressing the block it was taken from.
SwapBuffer(m) ==
    [m EXCEPT !.mem.data = m.mem.buf, !.mem.buf = m.mem.data,
              !.fresh = ~@,
              !.ret = [b |-> CASE m.ret.b = "buf" -> "data"
                                   [] m.ret.b = "data" -> "buf"
                                   [] OTHER -> m.ret.b,
                            i |-> m.ret.i]]

\* -------------------------------------------------------------------- Vector
\* A growth policy that adds one slot instead of doubling.
GrownCapacity_PlusOne(size) == size + 1

\* The capacity a full array grows to.
GrownCapacity(size) == IF size = 0 THEN 1 ELSE size * 2

\* A policy that copies whenever the move may throw, copyable or not.
RelocationKind_NothrowOnly == IF T.nothrow_move THEN "move_ctor" ELSE "copy_ctor"

\* MoveOrCopy's if constexpr: which constructor relocates an element
RelocationKind == IF T.nothrow_move \/ ~T.copyable THEN "move_ctor" ELSE "copy_ctor"

\* A relocation that moves whatever T's traits are.
MoveOrCopy_AlwaysMove(m, src, n, dest) == UninitializedMoveN(m, src, n, dest)

\* Vector::MoveOrCopy(src, n, dest)
MoveOrCopy(m, src, n, dest) ==
    IF RelocationKind = "move_ctor"
    THEN UninitializedMoveN(m, src, n, dest)
    ELSE UninitializedCopyN(m, src, n, dest)

\* Vector::MoveOrCopyAndSwap(data_, n_elems, buffer)
MoveOrCopyAndSwap(m, n_elems) ==
    LET m1 == MoveOrCopy(m, Ptr("data", 0), n_elems, Ptr("buf", 0))
    IN IF m1.exc THEN m1
       ELSE SwapBuffer(DestroyN(m1, Ptr("data", 0), n_elems))

\* A Reserve that returns early only below the current capacity.
DoReserve_Strict(m, new_capacity) ==
    IF new_capacity < Capacity(m.mem.data) THEN m
    ELSE FreeBuffer(MoveOrCopyAndSwap(NewBuffer(m, new_capacity), m.size))

\* Vector::Reserve(new_capacity)
DoReserve(m, new_capacity) ==
    IF new_capacity <= Capacity(m.mem.data) THEN m
    ELSE FreeBuffer(MoveOrCopyAndSwap(NewBuffer(m, new_capacity), m.size))

\* An EmplaceBack that relocates the elements into the new block before it
\* constructs the new one.
DoEmplaceBack_RelocateFirst(m, arg) ==
    LET m3 == IF m.size = Capacity(m.mem.data)
              THEN LET m1 == NewBuffer(m, GrownCapacity(m.size))
                       m2 == MoveOrCopy(m1, Ptr("data", 0), m.size, Ptr("buf", 0))
                       m4 == IF m2.exc THEN m2
                             ELSE ConstructArg(m2, Ptr("buf", m.size), arg)
                   IN FreeBuffer(IF m4.exc THEN m4
                                 ELSE SwapBuffer(DestroyN(m4, Ptr("data", 0), m.size)))
              ELSE ConstructArg(m, Ptr("data", m.size), arg)
    IN IF m3.exc THEN m3 ELSE [m3 EXCEPT !.size = @ + 1]

\* Vector::EmplaceBack(args), which PushBack forwards its reference to
DoEmplaceBack(m, arg) ==
    LET m3 == IF m.size = Capacity(m.mem.data)
              THEN LET m1 == NewBuffer(m, GrownCapacity(m.size))
                       m2 == ConstructArg(m1, Ptr("buf", m.size), arg)
                   IN FreeBuffer(IF m2.exc THEN m2 ELSE MoveOrCopyAndSwap(m2, m.size))
              ELSE ConstructArg(m, Ptr("data", m.size), arg)
    IN IF m3.exc THEN m3 ELSE [m3 EXCEPT !.size = @ + 1]

\* Vector::PopBack()
DoPopBack(m) ==
    IF m.size > 0
    THEN [DestroyAt(m, Ptr("data", m.size - 1)) EXCEPT !.size = @ - 1]
    ELSE m

\* A Resize that shrinks by lowering size_ only.
DoResize_KeepsTail(m, new_size) ==
    IF new_size = m.size THEN m
    ELSE IF new_size > m.size
    THEN LET m1 == IF new_size > Capacity(m.mem.data) THEN DoReserve(m, new_size) ELSE m
             m2 == IF m1.exc THEN m1
                   ELSE UninitializedValueConstructN(m1, Ptr("data", m.size),
                                                     new_size - m.size, 0)
         IN IF m2.exc THEN m2 ELSE [m2 EXCEPT !.size = new_size]
    ELSE [m EXCEPT !.size = new_size]

\* Vector::Resize(new_size)
DoResize(m, new_size) ==
    IF new_size = m.size THEN m
    ELSE IF new_size > m.size
    THEN LET m1 == IF new_size > Capacity(m.mem.data) THEN DoReserve(m, new_size) ELSE m
             m2 == IF m1.exc THEN m1
                   ELSE UninitializedValueConstructN(m1, Ptr("data", m.size),
                                                     new_size - m.size, 0)
         IN IF m2.exc THEN m2 ELSE [m2 EXCEPT !.size = new_size]
    ELSE [DestroyN(m, Ptr("data", new_size), m.size - new_size) EXCEPT !.size = new_size]

\* T* temp = new T(args): a one-object heap block; the new-expression
\* releases the memory again when the constructor throws.
NewTemp(m, arg) ==
    LET m1 == [m EXCEPT !.mem.temp = Allocate(1), !.ops.alloc = @ + 1]
        m2 == ConstructArg(m1, Ptr("temp", 0), arg)
    IN IF m2.exc THEN [m2 EXCEPT !.mem.temp = NoBlock, !.ops.free = @ + 1] ELSE m2

\* The end of Emplace's scope: the pointer temp is dropped with no delete,
\* so the heap object and its memory are lost.
DropTemp(m) ==
    [m EXCEPT !.mem.temp = NoBlock,
              !.lostObjs = @ + LiveCount(m.mem.temp),
              !.lostBlocks = IF Capacity(m.mem.temp) # 0 THEN @ + 1 ELSE @]

\* Vector::Emplace(pos, args), which Insert forwards its reference to;
\* dist = pos - begin()
DoEmplace(m, dist, arg) ==
    LET m0 == [m EXCEPT !.ret = Ptr("data", dist)]
        grow ==
            LET m1 == [NewBuffer(m0, GrownCapacity(m.size)) EXCEPT !.ret = Ptr("buf", dist)]
                m2 == ConstructArg(m1, Ptr("buf", dist), arg)
                m3 == Then(m2, MoveOrCopy(m2, Ptr("data", 0), dist, Ptr("buf", 0)))
                m4 == Then(m3, MoveOrCopy(m3, Ptr("data", dist), m.size - dist,
                                          Ptr("buf", dist + 1)))
                m5 == Then(m4, SwapBuffer(DestroyN(m4, Ptr("data", 0), m.size)))
            IN FreeBuffer(m5)
        inplace ==
            IF dist = m.size
            THEN ConstructArg(m0, Ptr("data", dist), arg)
            ELSE LET m1 == NewTemp(m0, arg)
                     m2 == Then(m1, ConstructFrom(m1, Ptr("data", m.size),
                                                  Ptr("data", m.size - 1), "move_ctor"))
                     m3 == Then(m2, MoveBackward(m2, "data", dist, m.size - 1, m.size))
                     m4 == Then(m3, DestroyAt(m3, Ptr("data", dist)))
                     m5 == Then(m4, AssignFrom(m4, Ptr("data", dist), Ptr("temp", 0),
                                               "move_assign"))
                 IN DropTemp(m5)
        m6 == IF m.size = Capacity(m.mem.data) THEN grow ELSE inplace
    IN Then(m6, [m6 EXCEPT !.size = @ + 1])

\* size_t arithmetic is modulo a power of two: --size_ on 0 wraps to the
\* largest value (64 bits in the build, 30 here to stay within TLC's integers).
SizeModulus == 1073741824

\* Erase's assert: pos >= begin() && pos <= end()
EraseAssert(size, dist) == dist >= 0 /\ dist <= size

\* Vector::Erase(pos); dist = pos - data_.GetAddress()
DoErase(m, dist) ==
    LET m0 == [m EXCEPT !.ret = Ptr("data", dist)]
        m1 == DestroyAt(m0, Ptr("data", dist))
        m2 == AssignForward(m1, "data", dist + 1, m.size, "data", dist,
                            IF T.nothrow_move \/ ~T.copyable
                            THEN "move_assign" ELSE "copy_assign")
    IN IF m2.exc THEN m2 ELSE [m2 EXCEPT !.size = (@ - 1) % SizeModulus]

\* Vector::CopyToFilledVector(lhs, rhs) with lhs = *this
CopyToFilledVector(m, rhs_size) ==
    LET lhs_size == m.size
        min_size == IF lhs_size < rhs_size THEN lhs_size ELSE rhs_size
        m1 == AssignForward(m, "rhs", 0, rhs_size, "data", 0, "copy_assign")
        m2 == IF m1.exc THEN m1
              ELSE IF min_size = lhs_size
              THEN UninitializedCopyN(m1, Ptr("rhs", lhs_size), rhs_size - lhs_size,
                                      Ptr("data", lhs_size))
              ELSE m1
        m3 == IF m2.exc THEN m2
              ELSE IF min_size = rhs_size /\ rhs_size # lhs_size
              THEN DestroyN(m2, Ptr("data", rhs_size), lhs_size - rhs_size)
              ELSE m2
    IN IF m3.exc THEN m3 ELSE [m3 EXCEPT !.size = rhs_size]

\* A copy assignment that always builds a copy and swaps it in.
DoCopyAssign_AlwaysCopyAndSwap(m) ==
    LET rhs_size == Capacity(m.mem.rhs)
        m1 == NewBuffer(m, rhs_size)
        m2 == UninitializedCopyN(m1, Ptr("rhs", 0), rhs_size, Ptr("buf", 0))
    IN IF m2.exc THEN FreeBuffer(m2)
       ELSE FreeBuffer(DestroyN([SwapBuffer(m2) EXCEPT !.size = rhs_size],
                                Ptr("buf", 0), m.size))

\* Vector::operator=(const Vector& rhs) for this != &rhs; mem.rhs holds rhs's
\* elements.  On the other path `Vector temp(rhs)` is built in the local
\* block (temp.data_), swapped in, and ~temp destroys the old elements.
DoCopyAssign(m) ==
    LET rhs_size == Capacity(m.mem.rhs)
    IN IF rhs_size > Capacity(m.mem.data)
       THEN LET m1 == NewBuffer(m, rhs_size)
                m2 == UninitializedCopyN(m1, Ptr("rhs", 0), rhs_size, Ptr("buf", 0))
            IN IF m2.exc THEN FreeBuffer(m2)
               ELSE FreeBuffer(DestroyN([SwapBuffer(m2) EXCEPT !.size = rhs_size],
                                        Ptr("buf", 0), m.size))
       ELSE CopyToFilledVector(m, rhs_size)

\* Vector::~Vector, then ~RawMemory of data_
DoDestroy(m) ==
    LET m1 == DestroyN(m, Ptr("data", 0), m.size)
    IN [m1 EXCEPT !.mem.data = NoBlock, !.size = 0,
                  !.ops.free = IF Capacity(m1.mem.data) # 0 THEN @ + 1 ELSE @,
                  !.lostObjs = @ + LiveCount(m1.mem.data)]

\* Vector::Vector(size_t size)
VectorN(n) == [i \in 0..(n - 1) |-> LiveSlot(Empty)]

\* ------------------------------------------------------------ state machine
\* T        the element type's traits
\* data_    the block data_ owns (its capacity is the block's size)
\* size_    Vector::size_
\* lost     objects never destroyed whose storage is gone, memory blocks never
\*          released, destructor calls on slots holding no object
\* phase    "alive" until ~Vector has run
\* viol     the lifetime violations the last call committed
\* last     the call that has just returned or thrown, until the caller goes
\*          on: its arguments, the array before it, what it returned, the
\*          element operations it ran and the objects it lost
\* heap     the blocks of the objects that live on a heap, by address
\* vec      Vector objects 1 (x) and 2 (y) on that heap: data_ (buffer_,
\*          capacity_), size_, and how the object was made
\* raw      RawMemory objects 1 and 2 on that heap
NoCall == [op |-> "none", obj |-> 0, arg |-> 0, val |-> 0, rhs |-> NoBlock, threw |-> FALSE,
           ops |-> NoOps, ret |-> NoRet, lostObjs |-> 0,
           pre_data |-> NoBlock, pre_size |-> 0]

\* The heap: each address holds a block or is free.
Addrs == 1..MaxAddr
FreeCell == [live |-> FALSE, cells |-> NoBlock]
EmptyHeap == [a \in Addrs |-> FreeCell]

\* RawMemory() = default: buffer_ = nullptr (address 0), capacity_ = 0
RawMemoryDefault == [buffer_ |-> 0, capacity_ |-> 0]

\* A place where no object has been constructed yet.
NoRaw == [alive |-> FALSE, buffer_ |-> 0, capacity_ |-> 0]
NoVec == [alive |-> FALSE, data_ |-> RawMemoryDefault, size_ |-> 0, origin |-> "none"]
ObjNames == {1, 2}

\* Vector() and Vector(size_t size)
InitWith(sizes) ==
    /\ T \in Kinds
    /\ \E n \in sizes : data_ = VectorN(n) /\ size_ = n
    /\ lost = [objs |-> 0, blocks |-> 0, dbl |-> 0]
    /\ phase = "alive"
    /\ viol = {}
    /\ last = NoCall
    /\ heap = EmptyHeap
    /\ vec = [o \in ObjNames |-> NoVec]
    /\ raw = [o \in ObjNames |-> NoRaw]

Init == InitWith(0..MaxCap)

MaxSize == IF MaxGrow > MaxCap THEN MaxGrow ELSE MaxCap
MaxFuel == MaxSize + 2
UBOutcomes == {"stores", "garbage"}

\* Calls are explored on a live vector until a call has committed undefined
\* behaviour (after it nothing about the program is constrained) or has lost
\* an object or a block; after that only the destructor runs.
Callable ==
    /\ phase = "alive"
    /\ last.op = "none"
    /\ viol = {}
    /\ lost.objs = 0 /\ lost.blocks = 0 /\ lost.dbl = 0

Start(fuel, ub) == Machine(data_, size_, NoBlock, fuel, ub)

\* A call whose argument refers to an object of the caller holding v: the
\* object is mem.rhs[0] and the argument is Ptr("rhs", 0).
StartArg(v, fuel, ub) == Machine(data_, size_, [i \in {0} |-> LiveSlot(v)], fuel, ub)

\* The handler's result `result` becomes the state (it is computed once).
Commit(op, arg, val, result) ==
    \E m \in {result} :
        /\ data_' = m.mem.data
        /\ size_' = m.size
        /\ lost' = [objs |-> lost.objs + m.lostObjs,
                    blocks |-> lost.blocks + m.lostBlocks,
                    dbl |-> lost.dbl + m.dbl]
        /\ viol' = m.viol
        /\ last' = [op |-> op, obj |-> 0, arg |-> arg, val |-> val, rhs |-> m.mem.rhs,
                    threw |-> m.exc, ops |-> m.ops, ret |-> m.ret,
                    lostObjs |-> m.lostObjs, pre_data |-> data_, pre_size |-> size_]
        /\ UNCHANGED <<T, heap, vec, raw>>

PushBack(v, fuel, maxGrow) ==
    /\ Callable
    /\ size_ = Capacity(data_) => GrownCapacity(size_) <= maxGrow
    /\ Commit("PushBack", size_, v,
              DoEmplaceBack(StartArg(v, fuel, "stores"), Ptr("rhs", 0)))
    /\ UNCHANGED phase

PopBack ==
    /\ Callable
    /\ Commit("PopBack", 0, 0, DoPopBack(Start(0, "stores")))
    /\ UNCHANGED phase

Reserve(n, fuel) ==
    /\ Callable
    /\ Commit("Reserve", n, 0, DoReserve(Start(fuel, "stores"), n))
    /\ UNCHANGED phase

Resize(n, fuel) ==
    /\ Callable
    /\ Commit("Resize", n, 0, DoResize(Start(fuel, "stores"), n))
    /\ UNCHANGED phase

Insert(dist, v, fuel, ub) ==
    /\ Callable
    /\ dist \in 0..size_
    /\ size_ = Capacity(data_) => GrownCapacity(size_) <= MaxGrow
    /\ Commit("Insert", dist, v, DoEmplace(StartArg(v, fuel, ub), dist, Ptr("rhs", 0)))
    /\ UNCHANGED phase

\* v.PushBack(v[i]): the argument refers to an element of the array itself
PushBackSelf(i, fuel) ==
    /\ Callable
    /\ T.copyable
    /\ i \in 0..(size_ - 1)
    /\ size_ = Capacity(data_) => GrownCapacity(size_) <= MaxGrow
    /\ Commit("PushBackSelf", size_, data_[i].val,
              DoEmplaceBack(Start(fuel, "stores"), Ptr("data", i)))
    /\ UNCHANGED phase

\* v.Insert(v.begin() + dist, v[i])
InsertSelf(dist, i, fuel, ub) ==
    /\ Callable
    /\ T.copyable
    /\ dist \in 0..size_
    /\ i \in 0..(size_ - 1)
    /\ size_ = Capacity(data_) => GrownCapacity(size_) <= MaxGrow
    /\ Commit("InsertSelf", dist, data_[i].val, DoEmplace(Start(fuel, ub), dist, Ptr("data", i)))
    /\ UNCHANGED phase

Erase(dist, fuel, ub) ==
    /\ Callable
    /\ dist \in 0..(size_ - 1)
    /\ Commit("Erase", dist, 0, DoErase(Start(fuel, ub), dist))
    /\ UNCHANGED phase

\* Erase(begin() + dist) in a build with assertions on, for any position
\* that can be formed, inside [begin, end) or not: a failed assert aborts the
\* program, a passed one runs Erase.
EraseChecked(dist, ub) ==
    /\ Callable
    /\ dist \in 0..Capacity(data_)
    /\ IF EraseAssert(size_, dist)
       THEN /\ Commit("EraseChecked", dist, 0, DoErase(Start(0, ub), dist))
            /\ UNCHANGED phase
       ELSE /\ phase' = "aborted"
            /\ last' = [NoCall EXCEPT !.op = "EraseChecked", !.arg = dist,
                                      !.pre_data = data_, !.pre_size = size_]
            /\ UNCHANGED <<T, data_, size_, lost, viol, heap, vec, raw>>

\* v = rhs for another vector rhs holding the values r[0..n-1]
CopyAssign(r, fuel, ub) ==
    /\ Callable
    /\ T.copyable
    /\ Commit("CopyAssign", Capacity(r), 0,
              DoCopyAssign(Machine(data_, size_, [i \in DOMAIN r |-> LiveSlot(r[i])],
                                   fuel, ub)))
    /\ UNCHANGED phase

\* v = v: operator= returns at once
CopyAssignSelf ==
    /\ Callable
    /\ T.copyable
    /\ Commit("CopyAssignSelf", 0, 0, Start(0, "stores"))
    /\ UNCHANGED phase

Destroy ==
    /\ phase = "alive"
    /\ last.op = "none"
    /\ Commit("Destroy", 0, 0, DoDestroy(Start(0, "stores")))
    /\ phase' = "destroyed"

\* The caller goes on after a call: the record of the call is dropped.
GoOn ==
    /\ last.op # "none"
    /\ last' = NoCall
    /\ UNCHANGED <<T, data_, size_, lost, phase, viol, heap, vec, raw>>

\* the source vectors of a copy assignment: n elements, neighbours distinct
Sources == {[i \in 0..(n - 1) |-> ((i + k) % MaxVal) + 1] :
                n \in 0..MaxCap, k \in 0..(MaxVal - 1)}

NextWith(fuels) ==
    \/ \E v \in Values, fuel \in fuels : PushBack(v, fuel, MaxGrow)
    \/ PopBack
    \/ \E n \in 0..MaxCap, fuel \in fuels : Reserve(n, fuel)
    \/ \E n \in 0..MaxCap, fuel \in fuels : Resize(n, fuel)
    \/ \E dist \in 0..MaxSize, v \in Values, fuel \in fuels, ub \in UBOutcomes :
           Insert(dist, v, fuel, ub)
    \/ \E dist \in 0..MaxSize, fuel \in fuels, ub \in UBOutcomes : Erase(dist, fuel, ub)
    \/ \E r \in Sources, fuel \in fuels, ub \in UBOutcomes : CopyAssign(r, fuel, ub)
    \/ CopyAssignSelf
    \/ Destroy
    \/ GoOn

Next == NextWith(0..MaxFuel)

\* every call may fail at any of its element operations
Spec == Init /\ [][Next]_vars

NextNoThrow == NextWith({0})

\* no element operation ever fails
SpecNoThrow == Init /\ [][NextNoThrow]_vars

NextSelfRef ==
    \/ NextNoThrow
    \/ \E i \in 0..MaxSize : PushBackSelf(i, 0)
    \/ \E dist \in 0..MaxSize, i \in 0..MaxSize, ub \in UBOutcomes : InsertSelf(dist, i, 0, ub)

\* no element operation fails; PushBack and Insert are also called with a
\* reference to an element of the array
SpecSelfRef == Init /\ [][NextSelfRef]_vars

NextDebug ==
    \/ NextNoThrow
    \/ \E dist \in 0..MaxSize, ub \in UBOutcomes : EraseChecked(dist, ub)

\* no element operation fails, assertions are on, Erase is called with any
\* position of the block
SpecDebug == Init /\ [][NextDebug]_vars

NextPushBack == (\E v \in Values : PushBack(v, 0, MaxPush)) \/ GoOn

\* a default-constructed vector on which only PushBack is called
SpecPushBack == InitWith({0}) /\ [][NextPushBack]_vars

\* ------------------------------------------------------------------ views
Elems(block, size) == [i \in 0..(size - 1) |-> block[i].val]

TypeOK ==
    /\ T \in Kinds
    /\ size_ \in 0..MaxPush
    /\ Capacity(data_) \in 0..MaxPush
    /\ phase \in {"alive", "destroyed", "aborted"}

\* [0, size) constructed, [size, capacity) raw, size within the block
SlotsValid(block, size) ==
    /\ size \in 0..Capacity(block)
    /\ \A i \in DOMAIN block : block[i].st = (IF i < size THEN "live" ELSE "raw")

\* the array as the last call found it
PreCap == Capacity(last.pre_data)
PreElems == Elems(last.pre_data, last.pre_size)
PreFull == last.pre_size = PreCap

\* the last call had to move the elements into a new block
Relocating ==
    \/ last.op = "Reserve" /\ last.arg > PreCap
    \/ last.op \in {"PushBack", "Insert"} /\ PreFull

\* the last call threw while relocating: in Reserve any throw is one, in a
\* growing PushBack/Insert a throw after the new element was built
RelocationFailed ==
    /\ last.threw
    /\ \/ last.op = "Reserve" /\ last.arg > PreCap
       \/ last.op \in {"PushBack", "Insert"} /\ PreFull /\ last.ops.ctor = 1

\* ------------------------------------------------- objects on a heap
\* RawMemory and Vector objects hold the address of their block, so that
\* two objects can be told to own the same block or different ones.

\* operator new returns storage that no live block occupies (here the lowest
\* free address).
HasFree(h) == \E a \in Addrs : ~h[a].live
FreshAddr(h) == CHOOSE a \in Addrs : ~h[a].live /\ \A b \in Addrs : b < a => h[b].live

\* RawMemory(size_t capacity): buffer_(Allocate(capacity)), capacity_(capacity)
RawMemoryOf(h, n) == [buffer_ |-> IF n # 0 THEN FreshAddr(h) ELSE 0, capacity_ |-> n]

\* the heap after RawMemory::Allocate(n)
HeapAllocate(h, n) ==
    IF n # 0 THEN [h EXCEPT ![FreshAddr(h)] = [live |-> TRUE, cells |-> Allocate(n)]]
    ELSE h

\* the heap after RawMemory::Deallocate(buf): operator delete
HeapDeallocate(h, a) == IF a # 0 THEN [h EXCEPT ![a] = FreeCell] ELSE h

\* RawMemory::Swap: a is *this, b is other; gives both objects afterwards
RawSwap(a, b) ==
    [this |-> [a EXCEPT !.buffer_ = b.buffer_, !.capacity_ = b.capacity_],
     other |-> [b EXCEPT !.buffer_ = a.buffer_, !.capacity_ = a.capacity_]]

\* RawMemory(RawMemory&& other): the members start as nullptr and 0, then Swap
RawMoveConstructed(other) ==
    RawSwap([alive |-> TRUE, buffer_ |-> 0, capacity_ |-> 0], other)

\* RawMemory::operator=(RawMemory&& rhs) with this != &rhs
RawMoveAssigned(a, rhs) == RawSwap(a, rhs)

\* a call on the RawMemory objects d (and s)
RawCall(op, d, s) ==
    /\ last.op = "none"
    /\ last' = [NoCall EXCEPT !.op = op, !.obj = d, !.arg = s]
    /\ UNCHANGED <<T, data_, size_, lost, phase, viol, vec>>

\* RawMemory<T> d(n)
RawConstruct(d, n) ==
    /\ ~raw[d].alive
    /\ n # 0 => HasFree(heap)
    /\ raw' = [raw EXCEPT ![d] = [alive |-> TRUE,
                                  buffer_ |-> RawMemoryOf(heap, n).buffer_,
                                  capacity_ |-> RawMemoryOf(heap, n).capacity_]]
    /\ heap' = HeapAllocate(heap, n)
    /\ RawCall("RawConstruct", d, n)

\* RawMemory<T> d(std::move(s))
RawMoveConstruct(d, s) ==
    /\ d # s /\ ~raw[d].alive /\ raw[s].alive
    /\ raw' = [raw EXCEPT ![d] = RawMoveConstructed(raw[s]).this,
                          ![s] = RawMoveConstructed(raw[s]).other]
    /\ UNCHANGED heap
    /\ RawCall("RawMoveConstruct", d, s)

\* d = std::move(s)
RawMoveAssign(d, s) ==
    /\ raw[d].alive /\ raw[s].alive
    /\ raw' = IF d # s
              THEN [raw EXCEPT ![d] = RawMoveAssigned(raw[d], raw[s]).this,
                               ![s] = RawMoveAssigned(raw[d], raw[s]).other]
              ELSE raw
    /\ UNCHANGED heap
    /\ RawCall("RawMoveAssign", d, s)

\* d.~RawMemory()
RawDestroy(d) ==
    /\ raw[d].alive
    /\ raw' = [raw EXCEPT ![d] = NoRaw]
    /\ heap' = HeapDeallocate(heap, raw[d].buffer_)
    /\ RawCall("RawDestroy", d, 0)

InitRawMemory ==
    /\ InitWith({0})
    /\ T = NothrowMovable

NextRawMemory ==
    \/ \E d \in ObjNames, n \in 0..MaxCap : RawConstruct(d, n)
    \/ \E d \in ObjNames, s \in ObjNames : RawMoveConstruct(d, s)
    \/ \E d \in ObjNames, s \in ObjNames : RawMoveAssign(d, s)
    \/ \E d \in ObjNames : RawDestroy(d)
    \/ GoOn

\* two RawMemory objects that are constructed, moved and destroyed
SpecRawMemory == InitRawMemory /\ [][NextRawMemory]_vars

\* The cells of the block a Vector object owns, and the elements it shows
\* through operator[] and Size().
Cells(h, v) == IF v.data_.buffer_ = 0 THEN NoBlock ELSE h[v.data_.buffer_].cells
Prefix(block, n) == [i \in 0..(n - 1) |-> block[i]]
View(h, v) == Elems(Cells(h, v), v.size_)

\* Vector::Swap: a is *this, b is other; gives both objects afterwards
VectorSwap(a, b) ==
    [this |-> [a EXCEPT !.data_ = RawSwap(a.data_, b.data_).this, !.size_ = b.size_],
     other |-> [b EXCEPT !.data_ = RawSwap(a.data_, b.data_).other, !.size_ = a.size_]]

\* A move constructor that takes the members and leaves the source as it is.
VectorMoveConstructed_KeepsSource(rhs) ==
    [this |-> [rhs EXCEPT !.origin = "move"], other |-> rhs]

\* Vector(Vector&& rhs): the members start as an empty data_ and 0, then Swap
VectorMoveConstructed(rhs) ==
    VectorSwap([alive |-> TRUE, data_ |-> RawMemoryDefault, size_ |-> 0,
                origin |-> "move"], rhs)

\* Vector(const Vector& other) run with mem.rhs holding other's elements:
\* data_(other.Size()), size_(other.Size()), then uninitialized_copy_n; when
\* a copy throws, the member data_ is destroyed and releases the block.
DoCopyConstruct(m) ==
    LET n == Capacity(m.mem.rhs)
        m1 == [m EXCEPT !.mem.data = Allocate(n), !.size = n, !.fresh = TRUE,
                        !.ops.alloc = IF n # 0 THEN @ + 1 ELSE @]
        m2 == UninitializedCopyN(m1, Ptr("rhs", 0), n, Ptr("data", 0))
    IN IF m2.exc
       THEN [m2 EXCEPT !.mem.data = NoBlock, !.size = 0,
                       !.ops.free = IF n # 0 THEN @ + 1 ELSE @]
       ELSE m2

\* v[i] = value: operator[] gives the element, the caller assigns to it
DoWrite(m, i) == AssignFrom(m, Ptr("data", i), Ptr("rhs", 0), "copy_assign")

\* The object v and the heap after a member function that ran on v's block
\* has left the machine m: a block allocated during the call has its own
\* address, taken while the old block was still allocated, and the old block
\* has been released.
Placed(h, v, m) ==
    LET old == v.data_.buffer_
        cap == Capacity(m.mem.data)
        addr == IF m.fresh THEN (IF cap # 0 THEN FreshAddr(h) ELSE 0) ELSE old
    IN [vec |-> [v EXCEPT !.alive = TRUE, !.size_ = m.size,
                          !.data_ = [buffer_ |-> addr, capacity_ |-> cap]],
        heap |-> [a \in Addrs |->
                    IF a = addr THEN [live |-> TRUE, cells |-> m.mem.data]
                    ELSE IF m.fresh /\ a = old THEN FreeCell
                    ELSE h[a]],
        m |-> m]

\* A copy constructor that copies the members of the source.
VectorCopyOf_Shallow(h, other) ==
    [vec |-> [other EXCEPT !.origin = "copy"], heap |-> h,
     m |-> Machine(Cells(h, other), other.size_, NoBlock, 0, "stores")]

\* Vector(const Vector& other) on heap h
VectorCopyOf(h, other) ==
    Placed(h, [NoVec EXCEPT !.origin = "copy"],
           DoCopyConstruct(Machine(NoBlock, 0, Prefix(Cells(h, other), other.size_),
                                   0, "stores")))

\* A call on Vector object o returns: r holds the object, the heap and the
\* machine it left.
ObjCommit(op, o, r) ==
    /\ vec' = [vec EXCEPT ![o] = r.vec]
    /\ heap' = r.heap
    /\ lost' = [objs |-> lost.objs + r.m.lostObjs,
                blocks |-> lost.blocks + r.m.lostBlocks,
                dbl |-> lost.dbl + r.m.dbl]
    /\ viol' = r.m.viol
    /\ last' = [NoCall EXCEPT !.op = op, !.obj = o, !.threw = r.m.exc]
    /\ UNCHANGED <<T, data_, size_, phase, raw>>

\* The machine a member function of object o starts from; no element
\* operation fails.
Load(o, rhs, ub) == Machine(Cells(heap, vec[o]), vec[o].size_, rhs, 0, ub)
OneObject(v) == [i \in {0} |-> LiveSlot(v)]
MayGrow(o) ==
    vec[o].size_ = vec[o].data_.capacity_ =>
        GrownCapacity(vec[o].size_) <= MaxObjCap /\ HasFree(heap)

\* Vector(size_t size) on heap h
VectorOfSize(h, n) ==
    Placed(h, [NoVec EXCEPT !.origin = "size"],
           [Machine(VectorN(n), n, NoBlock, 0, "stores") EXCEPT !.fresh = TRUE])

\* Vector<T> o(n)
VConstruct(o, n) ==
    /\ Callable /\ ~vec[o].alive
    /\ n # 0 => HasFree(heap)
    /\ ObjCommit("Construct", o, VectorOfSize(heap, n))

\* Vector<T> d(s)
VCopyConstruct(d, s) ==
    /\ Callable /\ T.copyable
    /\ d # s /\ ~vec[d].alive /\ vec[s].alive
    /\ vec[s].size_ # 0 => HasFree(heap)
    /\ ObjCommit("CopyConstruct", d, VectorCopyOf(heap, vec[s]))

\* Vector<T> d(std::move(s))
VMoveConstruct(d, s) ==
    /\ Callable
    /\ d # s /\ ~vec[d].alive /\ vec[s].alive
    /\ vec' = [vec EXCEPT ![d] = VectorMoveConstructed(vec[s]).this,
                          ![s] = VectorMoveConstructed(vec[s]).other]
    /\ last' = [NoCall EXCEPT !.op = "MoveConstruct", !.obj = d]
    /\ UNCHANGED <<T, data_, size_, lost, phase, viol, heap, raw>>

\* d = s for two different objects
VCopyAssign(d, s, ub) ==
    /\ Callable /\ T.copyable
    /\ d # s /\ vec[d].alive /\ vec[s].alive
    /\ vec[s].size_ > vec[d].data_.capacity_ => HasFree(heap)
    /\ ObjCommit("CopyAssign", d,
                 Placed(heap, vec[d],
                        DoCopyAssign(Load(d, Prefix(Cells(heap, vec[s]), vec[s].size_), ub))))

\* o[i] = v
VWrite(o, i, v) ==
    /\ Callable /\ T.copyable
    /\ vec[o].alive /\ i \in 0..(vec[o].size_ - 1)
    /\ ObjCommit("Write", o,
                 Placed(heap, vec[o], DoWrite(Load(o, OneObject(v), "stores"), i)))

\* o.PushBack(v)
VPushBack(o, v) ==
    /\ Callable /\ vec[o].alive /\ MayGrow(o)
    /\ ObjCommit("PushBack", o,
                 Placed(heap, vec[o],
                        DoEmplaceBack(Load(o, OneObject(v), "stores"), Ptr("rhs", 0))))

\* o.PopBack()
VPopBack(o) ==
    /\ Callable /\ vec[o].alive
    /\ ObjCommit("PopBack", o, Placed(heap, vec[o], DoPopBack(Load(o, NoBlock, "stores"))))

\* o.Insert(o.begin() + dist, v)
VInsert(o, dist, v, ub) ==
    /\ Callable /\ vec[o].alive /\ MayGrow(o)
    /\ dist \in 0..vec[o].size_
    /\ ObjCommit("Insert", o,
                 Placed(heap, vec[o],
                        DoEmplace(Load(o, OneObject(v), ub), dist, Ptr("rhs", 0))))

\* o.Erase(o.begin() + dist)
VErase(o, dist, ub) ==
    /\ Callable /\ vec[o].alive
    /\ dist \in 0..(vec[o].size_ - 1)
    /\ ObjCommit("Erase", o, Placed(heap, vec[o], DoErase(Load(o, NoBlock, ub), dist)))

\* o.Resize(n)
VResize(o, n) ==
    /\ Callable /\ vec[o].alive
    /\ n > vec[o].data_.capacity_ => HasFree(heap)
    /\ ObjCommit("Resize", o, Placed(heap, vec[o], DoResize(Load(o, NoBlock, "stores"), n)))

\* the other one of the two objects
Other(o) == 3 - o

\* the calls that change one array
Mutations == {"Write", "PushBack", "PopBack", "Insert", "Erase", "Resize"}

\* Vector<T> x(n) has been constructed as object 1
InitObjects ==
    /\ T \in Kinds
    /\ data_ = NoBlock /\ size_ = 0
    /\ lost = [objs |-> 0, blocks |-> 0, dbl |-> 0]
    /\ phase = "alive"
    /\ viol = {}
    /\ last = NoCall
    /\ raw = [o \in ObjNames |-> NoRaw]
    /\ \E n \in 0..MaxObjCap :
          /\ heap = VectorOfSize(EmptyHeap, n).heap
          /\ vec = [o \in ObjNames |-> IF o = 1 THEN VectorOfSize(EmptyHeap, n).vec ELSE NoVec]

NextObjects ==
    \/ \E n \in 0..MaxObjCap : VConstruct(2, n)
    \/ \E d \in ObjNames, s \in ObjNames : VCopyConstruct(d, s)
    \/ \E d \in ObjNames, s \in ObjNames : VMoveConstruct(d, s)
    \/ \E d \in ObjNames, s \in ObjNames, ub \in UBOutcomes : VCopyAssign(d, s, ub)
    \/ \E o \in ObjNames, i \in 0..MaxObjCap, v \in Values : VWrite(o, i, v)
    \/ \E o \in ObjNames, v \in Values : VPushBack(o, v)
    \/ \E o \in ObjNames : VPopBack(o)
    \/ \E o \in ObjNames, dist \in 0..MaxObjCap, v \in Values, ub \in UBOutcomes :
           VInsert(o, dist, v, ub)
    \/ \E o \in ObjNames, dist \in 0..MaxObjCap, ub \in UBOutcomes : VErase(o, dist, ub)
    \/ \E o \in ObjNames, n \in 0..MaxObjCap : VResize(o, n)
    \/ GoOn

\* two Vector objects: one is copied or moved into the other, both are changed
SpecObjects == InitObjects /\ [][NextObjects]_vars

\* ------------------------------------------------------------------ claims

\* C1: between public operations called within their preconditions, none of
\* which failed, every slot in [0, length) holds a constructed element, every
\* slot in [length, capacity) is raw, and 0 <= length <= capacity.
C1_SlotsMatchLength == phase = "alive" => SlotsValid(data_, size_)

\* C2: after non-failing operations and the destructor, every object
\* constructed has been destroyed exactly once and every block released:
\* nothing is lost and no destructor ran on a slot holding no object.
C2_NothingLeakedOrDestroyedTwice ==
    phase = "destroyed" => lost.objs = 0 /\ lost.blocks = 0 /\ lost.dbl = 0

\* C3 as stated: when a copy or move fails while Reserve or a growing
\* PushBack/Insert relocates the elements, the array keeps its length, its
\* capacity and its element values, whatever the kind of element type.
C3_StrongGuaranteeAllKinds ==
    RelocationFailed =>
        /\ size_ = last.pre_size
        /\ Capacity(data_) = PreCap
        /\ Elems(data_, size_) = PreElems

\* C3 amended: when relocation fails the array keeps its length and its
\* capacity, and for a copy-constructible T (relocated by copy when its move
\* may throw) also its element values in order.
C3_StrongGuaranteeCopyable ==
    RelocationFailed =>
        /\ size_ = last.pre_size
        /\ Capacity(data_) = PreCap
        /\ T.copyable => Elems(data_, size_) = PreElems

\* C3 witness: Reserve on two differing elements of a throwing-move copyable
\* type has thrown on the second copy.
C3_Witness ==
    /\ last.op = "Reserve" /\ last.threw /\ T = ThrowingMoveCopyable
    /\ last.ops.copy = 1 /\ size_ = 2 /\ data_[0].val # data_[1].val

\* C4: when an element operation fails during Reserve or a growing
\* PushBack/Insert, everything constructed in the new block (the new element
\* and the relocated prefix) is destroyed before the block is released.
C4_NewBlockUnwound == last.threw /\ Relocating => last.lostObjs = 0

\* C5: when an element operation fails in an Insert that does not grow, or
\* in a copy assignment on the reuse path, the array is left valid: [0, length)
\* constructed, [length, capacity) raw, so that the destructor destroys each
\* live element once.
C5_BasicGuarantee ==
    /\ last.threw
    /\ SlotsValid(last.pre_data, last.pre_size)
    /\ \/ last.op = "Insert" /\ ~PreFull
       \/ last.op = "CopyAssign" /\ last.arg <= PreCap
    => SlotsValid(data_, size_)

\* The smallest of 0, 1, 2, 4, 8, ... that is >= n
RECURSIVE DoublingFrom(_, _)
DoublingFrom(c, n) == IF c >= n THEN c ELSE DoublingFrom(IF c = 0 THEN 1 ELSE 2 * c, n)

\* C6: on a default-constructed array that is only pushed to, every PushBack
\* adds its value at the end and leaves the others, capacity changes only on
\* a full array, from c to max(1, 2c), and is always the smallest of
\* 0, 1, 2, 4, 8, ... that is >= length.
C6_PushBackDoubles ==
    /\ Capacity(data_) = DoublingFrom(0, size_)
    /\ SlotsValid(data_, size_)
    /\ last.op = "PushBack" =>
         /\ ~last.threw
         /\ size_ = last.pre_size + 1
         /\ Elems(data_, size_) =
              [i \in 0..last.pre_size |-> IF i < last.pre_size
                                          THEN last.pre_data[i].val ELSE last.val]
         /\ Capacity(data_) =
              IF PreFull THEN (IF 2 * PreCap > 1 THEN 2 * PreCap ELSE 1) ELSE PreCap

\* C6 witness: the third push, of values that differ, has grown the block
\* from 2 to 4.
C6_Witness ==
    /\ last.op = "PushBack" /\ PreFull
    /\ size_ = 3 /\ Capacity(data_) = 4
    /\ data_[0].val # data_[1].val /\ data_[1].val # data_[2].val

\* C7: when the construction of the new element throws in PushBack, on a full
\* array or not, length, capacity and elements are as before and no existing
\* element was moved, copied, assigned or destroyed.
C7_ThrowingConstructorLeavesArray ==
    last.op = "PushBack" /\ last.threw /\ last.ops.ctor = 0 =>
        /\ size_ = last.pre_size
        /\ data_ = last.pre_data
        /\ last.ops.copy = 0 /\ last.ops.move = 0
        /\ last.ops.assign = 0 /\ last.ops.dtor = 0
        /\ last.lostObjs = 0

\* C7 witness: on a full array of two elements the new element's constructor
\* has thrown after the new block was allocated.
C7_Witness ==
    /\ last.op = "PushBack" /\ last.threw /\ last.ops.ctor = 0
    /\ PreFull /\ size_ = 2 /\ last.ops.alloc = 1 /\ last.ops.free = 1

\* C8: a non-failing Insert at index p of an array of length n gives length
\* n + 1, v at p, [0, p) as before and every old element i >= p at i + 1, and
\* returns the iterator to index p of the current storage, growing or not.
C8_InsertPlacesValue ==
    last.op = "Insert" /\ ~last.threw =>
        /\ size_ = last.pre_size + 1
        /\ Elems(data_, size_) =
             [i \in 0..last.pre_size |->
                 IF i < last.arg THEN last.pre_data[i].val
                 ELSE IF i = last.arg THEN last.val ELSE last.pre_data[i - 1].val]
        /\ last.ret = Ptr("data", last.arg)

\* C9: a non-failing Erase at index p of an array of length n >= 1 gives
\* length n - 1, [0, p) as before and every old element i > p at i - 1, keeps
\* the capacity and returns the iterator to index p.
C9_EraseShiftsDown ==
    last.op = "Erase" /\ ~last.threw =>
        /\ size_ = last.pre_size - 1
        /\ Elems(data_, size_) =
             [i \in 0..(last.pre_size - 2) |->
                 IF i < last.arg THEN last.pre_data[i].val ELSE last.pre_data[i + 1].val]
        /\ Capacity(data_) = PreCap
        /\ last.ret = Ptr("data", last.arg)

\* C10: copy assignment on the reuse path assigns only to the overlapping
\* prefix, copy-constructs [length, source length), destroys
\* [source length, length), never assigns to a raw slot nor constructs over a
\* live one, keeps the capacity and sets length to the source length.
C10_ReuseAssignsOnlyLivePrefix ==
    last.op = "CopyAssign" /\ ~last.threw /\ last.arg <= PreCap =>
        /\ viol = {}
        /\ last.ops.assign = (IF last.pre_size < last.arg THEN last.pre_size ELSE last.arg)
        /\ last.ops.copy = (IF last.arg > last.pre_size THEN last.arg - last.pre_size ELSE 0)
        /\ last.ops.dtor = (IF last.pre_size > last.arg THEN last.pre_size - last.arg ELSE 0)
        /\ Capacity(data_) = PreCap
        /\ size_ = last.arg

\* C14: Reserve(n) with n <= capacity changes nothing and runs no element
\* operation and no allocation; Reserve(n) with n > capacity that does not
\* fail gives capacity exactly n and keeps length and elements in order.
C14_ReserveNoOpOrExact ==
    last.op = "Reserve" /\ ~last.threw =>
        IF last.arg <= PreCap
        THEN /\ data_ = last.pre_data
             /\ size_ = last.pre_size
             /\ last.ops = NoOps
        ELSE /\ Capacity(data_) = last.arg
             /\ size_ = last.pre_size
             /\ Elems(data_, size_) = PreElems
             /\ SlotsValid(data_, size_)

\* C14 witness: Reserve has moved two differing elements into a larger block.
C14_Witness ==
    /\ last.op = "Reserve" /\ ~last.threw /\ last.arg > PreCap
    /\ size_ = 2 /\ data_[0].val # data_[1].val /\ last.ops.alloc = 1

\* C15: a non-failing Resize(n) on a valid array of length m appends n - m value-initialized
\* elements after the kept ones when n > m, destroys exactly [n, m), each
\* once, keeping [0, n) and the capacity when n < m, changes nothing when
\* n = m; length becomes n and capacity >= n.
C15_ResizeAppendsOrDestroysTail ==
    last.op = "Resize" /\ ~last.threw /\ SlotsValid(last.pre_data, last.pre_size) =>
        /\ size_ = last.arg
        /\ Capacity(data_) >= last.arg
        /\ last.arg > last.pre_size =>
              /\ SlotsValid(data_, size_)
              /\ Elems(data_, size_) =
                   [i \in 0..(last.arg - 1) |->
                       IF i < last.pre_size THEN last.pre_data[i].val ELSE Empty]
              /\ last.ops.ctor = last.arg - last.pre_size
        /\ last.arg < last.pre_size =>
              /\ data_ = [i \in DOMAIN last.pre_data |->
                             IF i >= last.arg /\ i < last.pre_size
                             THEN RawSlot ELSE last.pre_data[i]]
              /\ last.ops.dtor = last.pre_size - last.arg
              /\ lost.dbl = 0
        /\ last.arg = last.pre_size =>
              /\ data_ = last.pre_data
              /\ last.ops = NoOps

\* C15 witness: Resize has destroyed the two last elements of three and kept
\* the first, which is not a value-initialized one.
C15_Witness ==
    /\ last.op = "Resize" /\ ~last.threw
    /\ last.pre_size = 3 /\ last.arg = 1 /\ data_[0].val # Empty
    /\ last.ops.dtor = 2

\* C16: every relocation into a new block (Reserve, growing PushBack, growing
\* Insert) move-constructs iff T's move cannot throw or T is not copyable and
\* copy-constructs otherwise: a throwing-move copyable T is never moved, a
\* non-copyable T never copied, and a relocation that succeeds relocates
\* every element.
C16_RelocationPolicy ==
    Relocating =>
        IF T.nothrow_move \/ ~T.copyable
        THEN /\ last.ops.copy = 0
             /\ ~last.threw => last.ops.move = last.pre_size
        ELSE /\ last.ops.move = 0
             /\ ~last.threw => last.ops.copy = last.pre_size

\* C16 witness: a growing Insert in the middle of two elements of a
\* throwing-move copyable type has copied both.
C16_Witness ==
    /\ last.op = "Insert" /\ PreFull /\ ~last.threw
    /\ T = ThrowingMoveCopyable /\ last.pre_size = 2 /\ last.arg = 1
    /\ last.ops.copy = 2

\* C17: no call on a live array lowers its capacity, and PopBack, Erase and
\* Resize to a smaller size leave it exactly as it was.
C17_CapacityNeverDecreases ==
    [][phase' = "alive" /\ last'.op # "none" =>
          /\ Capacity(data_') >= Capacity(data_)
          /\ \/ last'.op \in {"PopBack", "Erase"}
             \/ last'.op = "Resize" /\ last'.arg < size_
             => Capacity(data_') = Capacity(data_)]_vars

\* C17 witness: a copy assignment from a shorter source has left a capacity
\* of three as it was.
C17_Witness ==
    /\ last.op = "CopyAssign" /\ ~last.threw
    /\ PreCap = 3 /\ last.arg = 1 /\ Capacity(data_) = 3

\* C18: in a non-growing Insert at an interior position and in Erase every
\* step acts on slots in the right state: nothing assigns to, reads from or
\* destroys a slot holding no object, nothing constructs over a live one.
C18_ShiftStepsValid ==
    \/ last.op = "Insert" /\ ~PreFull /\ last.arg < last.pre_size
    \/ last.op = "Erase"
    => viol = {}

\* C19: Erase's assert accepts exactly [begin, end): a call with a position at
\* or past end() is aborted by the assert and changes nothing, so Erase
\* never runs a destructor at an index >= length and never takes the length
\* below 0 (which would wrap it above the capacity).
C19_EraseAssertRejectsEnd ==
    last.op = "EraseChecked" =>
        /\ last.arg >= last.pre_size =>
              phase = "aborted" /\ size_ = last.pre_size /\ data_ = last.pre_data
        /\ size_ <= Capacity(data_)
        /\ viol \cap {"destroy_of_raw", "out_of_block"} = {}

\* C20: PushBack(v[i]) and Insert(p, v[i]) insert a copy of the value element
\* i had before the call, at the end or at p, with the other elements kept
\* in order, whether the call grows the array or not.
C20_SelfReferenceInsertsOldValue ==
    /\ last.op = "PushBackSelf" /\ ~last.threw =>
          /\ size_ = last.pre_size + 1
          /\ Elems(data_, size_) =
               [i \in 0..last.pre_size |->
                   IF i < last.pre_size THEN last.pre_data[i].val ELSE last.val]
          /\ viol = {}
    /\ last.op = "InsertSelf" /\ ~last.threw =>
          /\ size_ = last.pre_size + 1
          /\ Elems(data_, size_) =
               [i \in 0..last.pre_size |->
                   IF i < last.arg THEN last.pre_data[i].val
                   ELSE IF i = last.arg THEN last.val ELSE last.pre_data[i - 1].val]

\* C13: after a RawMemory move-construction, or a move-assignment from another
\* object, the destination holds the source's block and capacity and the
\* source holds no block and capacity 0, whatever the destination owned.
C13_TransferEmptiesSource ==
    [][last'.op \in {"RawMoveConstruct", "RawMoveAssign"} /\ last'.obj # last'.arg =>
          /\ raw'[last'.obj].buffer_ = raw[last'.arg].buffer_
          /\ raw'[last'.obj].capacity_ = raw[last'.arg].capacity_
          /\ raw'[last'.arg].buffer_ = 0
          /\ raw'[last'.arg].capacity_ = 0]_vars

\* C11: a non-failing copy-construction or copy-assignment from x gives the
\* destination x's length and values and leaves x as it was; a copy-constructed
\* array has capacity exactly x's length; and a later change of one array
\* (element write, PushBack, PopBack, Insert, Erase, Resize) leaves the other
\* array's length and values as they were.
C11_CopyIsDeepAndIndependent ==
    [][/\ last'.op \in {"CopyConstruct", "CopyAssign"} /\ ~last'.threw =>
            /\ vec'[last'.obj].size_ = vec[Other(last'.obj)].size_
            /\ View(heap', vec'[last'.obj]) = View(heap, vec[Other(last'.obj)])
            /\ vec'[Other(last'.obj)] = vec[Other(last'.obj)]
            /\ View(heap', vec'[Other(last'.obj)]) = View(heap, vec[Other(last'.obj)])
            /\ last'.op = "CopyConstruct" =>
                  vec'[last'.obj].data_.capacity_ = vec[Other(last'.obj)].size_
       /\ last'.op \in Mutations =>
            /\ vec'[Other(last'.obj)].size_ = vec[Other(last'.obj)].size_
            /\ View(heap', vec'[Other(last'.obj)]) = View(heap, vec[Other(last'.obj)])]_vars

\* C11 witness: object 2 was made as a copy of object 1, then an element of
\* the copy was written: the copy shows the new value, the original still the
\* two differing values, in a block of its own.
C11_Witness ==
    /\ last.op = "Write" /\ last.obj = 2 /\ vec[2].origin = "copy"
    /\ vec[1].alive /\ vec[1].size_ = 2 /\ vec[2].size_ = 2
    /\ View(heap, vec[1])[0] # View(heap, vec[1])[1]
    /\ View(heap, vec[2])[0] = View(heap, vec[2])[1]
    /\ vec[1].data_.buffer_ # vec[2].data_.buffer_

\* C12: move-constructing from x leaves x with length 0 and capacity 0 and
\* gives the destination x's block, capacity, length and values; no element
\* is constructed, copied, moved or destroyed (every block is as it was), and
\* nothing is thrown.
C12_MoveConstructTransfers ==
    [][last'.op = "MoveConstruct" =>
          /\ vec'[Other(last'.obj)].size_ = 0
          /\ vec'[Other(last'.obj)].data_ = RawMemoryDefault
          /\ vec'[last'.obj].size_ = vec[Other(last'.obj)].size_
          /\ vec'[last'.obj].data_ = vec[Other(last'.obj)].data_
          /\ View(heap', vec'[last'.obj]) = View(heap, vec[Other(last'.obj)])
          /\ heap' = heap
          /\ ~last'.threw /\ last'.ops = NoOps
          /\ lost' = lost /\ viol' = viol]_vars

\* C12 witness: object 2 has been move-constructed from an object 1 that held
\* two differing values in a block of capacity 2.
C12_Witness ==
    /\ last.op = "MoveConstruct" /\ last.obj = 2
    /\ vec[2].size_ = 2 /\ vec[2].data_.capacity_ = 2 /\ vec[2].data_.buffer_ # 0
    /\ View(heap, vec[2])[0] # View(heap, vec[2])[1]
    /\ vec[1].alive /\ vec[1].size_ = 0

====
